---------------------------- MODULE Spec2Model ----------------------------
(***************************************************************************)
(* A model of the Google Maps export cleaner: the desktop flow             *)
(* (LOCAL_gmaps_file_cleaner.py) and the web flow (app.py).                *)
(*                                                                         *)
(* Text is a sequence of one-character strings.  A table is a sequence of  *)
(* row labels (the pandas index, which boolean-mask filtering keeps), the  *)
(* cells being looked up in the loaded frame.                              *)
(***************************************************************************)
EXTENDS Integers, Sequences, FiniteSets, TLC

VARIABLES
    resp,       \* classify_category: what session.post / resp.json() produced
    ret,        \* classify_category: the returned triple, or NoRet
    final_df,   \* web: st.session_state.final_df (Absent or a table)
    download,   \* web: st.session_state.download_file_* (Absent or an artifact)
    do_batch,   \* web: the "Split file into multiple batches" toggle
    rows_per_file,  \* web: the "Max rows per file" input (0 when not batching)
    flow,       \* "desktop" (LOCAL_gmaps_file_cleaner.py) or "web" (app.py)
    df,         \* the loaded frame: per row its rating and ratingCount cells
    rating_input,       \* the minimum rating as entered
    rating_count_input, \* the minimum rating count as entered
    temp_df,    \* desktop: the preview table of the filter prompt
    filtered_df,    \* the pre-filtered table (desktop filtered_df, web df_current)
    fpc,        \* where the pre-filter stands: "prompt", "confirm", "done", "page"
    category_col,   \* the category column of the pre-filtered table, by row
    pc,         \* where the run stands: "ask", "idle", "classifying", "gui",
                \* "again", "halted"
    use_ai,     \* web: the "Enable AI category filtering" toggle
    enable_manual_selection,    \* desktop: the answer to the manual selection question
    api,        \* what the API answers for each category under this keyword
    sem_limit,  \* asyncio.Semaphore(N): N
    sem_value,  \* asyncio.Semaphore: the permits left
    task,       \* per category, its classify_category task: "pending" (waiting
                \* for a permit), "inflight" (request sent), "done" (returned)
    posts,      \* per category, the session.post calls made for it
    task_ret,   \* per category, what its task returned
    done_queue, \* asyncio.as_completed: finished tasks not yet yielded
    collected,  \* the categories yielded by as_completed so far, in order
    results,    \* the results dict: category -> is_relevant
    result_col, \* the derived column the merge adds to the pre-filtered table
    relevant_df,    \* desktop: relevant_df
    kept_categories,    \* desktop kept_categories, web session relevant_categories
    df_classified,  \* web: st.session_state.df_classified (its derived column)
    cb,         \* the checkboxes: category -> checked
    selected,   \* the categories read off the checkboxes at the last finalize
    output_csv, \* desktop: the table written to the output file
    op,         \* the last thing the user did in the selection step
    prev_op     \* and the one before

replyVars == <<resp, ret>>
exportVars == <<final_df, download, do_batch, rows_per_file>>
filterVars == <<df, rating_input, rating_count_input, temp_df, filtered_df, fpc>>
classifyVars == <<api, sem_value, task, posts, task_ret, done_queue, collected,
                  results>>
mergeVars == <<result_col, relevant_df, kept_categories, df_classified>>
selectVars == <<cb, selected, output_csv, op, prev_op>>
inputVars == <<category_col, sem_limit>>
pipeVars == <<inputVars, pc, use_ai, enable_manual_selection,
              classifyVars, mergeVars, selectVars>>
vars == <<replyVars, exportVars, flow, filterVars, pipeVars>>

(***************************************************************************)
(* Bounds                                                                  *)
(***************************************************************************)
MaxReplyLen == 5
MaxExportRows == 5
MaxBatch == 3
MaxFilterRows == 2
MaxRows == 3
MaxLimit == 1
MaxDownloadRows == 2

(***************************************************************************)
(* Program constants                                                       *)
(***************************************************************************)
\* LOCAL_gmaps_file_cleaner.py: semaphore = asyncio.Semaphore(50)
DesktopSemaphore == 50
\* app.py: semaphore = asyncio.Semaphore(10)
WebSemaphore == 10

(***************************************************************************)
(* Text helpers: str.strip, str.lower, the "in" operator on strings        *)
(***************************************************************************)
Chars == {"y", "Y", "e", "s", "S", "n", " "}

Whitespace == {" "}

LowerChar(ch) ==
    CASE ch = "Y" -> "y"
      [] ch = "E" -> "e"
      [] ch = "S" -> "s"
      [] ch = "N" -> "n"
      [] ch = "O" -> "o"
      [] OTHER -> ch

Lower(s) == [i \in 1..Len(s) |-> LowerChar(s[i])]

RECURSIVE LStrip(_)
LStrip(s) ==
    IF s # <<>> /\ Head(s) \in Whitespace THEN LStrip(Tail(s)) ELSE s

RECURSIVE RStrip(_)
RStrip(s) ==
    IF s # <<>> /\ s[Len(s)] \in Whitespace
    THEN RStrip(SubSeq(s, 1, Len(s) - 1))
    ELSE s

Strip(s) == RStrip(LStrip(s))

\* Python's  sub in s
Contains(s, sub) ==
    \E i \in 1..(Len(s) - Len(sub) + 1) : SubSeq(s, i, i + Len(sub) - 1) = sub

Yes == <<"y", "e", "s">>

(***************************************************************************)
(* classify_category: the handling of one response                         *)
(*                                                                         *)
(* A response is one of                                                    *)
(*   exception : session.post or resp.json() raised (transport failure,    *)
(*               timeout after 30 s, body that is not JSON)                *)
(*   no_choices: a JSON object without a non-empty "choices" (the API's    *)
(*               error payload, whose "error" is an object when present)   *)
(*   malformed : "choices" is there but choices[0].message.content is not  *)
(*               a string, so indexing or .strip() raises                  *)
(*   reply     : choices[0].message.content is the text                    *)
(***************************************************************************)
NoRet == <<>>

ReplyResp(text) == [kind |-> "reply", text |-> text]
ExceptionResp == [kind |-> "exception", text |-> <<>>]
NoChoicesResp == [kind |-> "no_choices", text |-> <<>>]
MalformedResp == [kind |-> "malformed", text |-> <<>>]
\* no response yet
NoResp == [kind |-> "none", text |-> <<>>]

ERROR_API == <<"e", "r", "r", "o", "r", "_", "a", "p", "i">>
ERROR == <<"e", "r", "r", "o", "r">>

NormalizeReplyNoLower(text) == Strip(text)

\* reply = data["choices"][0]["message"]["content"].strip().lower()
NormalizeReply(text) == Lower(Strip(text))

ClassifyResponseOneStatus(category, r) ==
    IF r.kind = "reply"
    THEN <<category, Contains(NormalizeReply(r.text), Yes), NormalizeReply(r.text)>>
    ELSE <<category, FALSE, ERROR>>

\* the tuple classify_category returns for a response
ClassifyResponse(category, r) ==
    CASE r.kind = "exception" -> <<category, FALSE, ERROR>>
      [] r.kind = "malformed" -> <<category, FALSE, ERROR>>
      [] r.kind = "no_choices" -> <<category, FALSE, ERROR_API>>
      [] OTHER ->
            LET reply == NormalizeReply(r.text)
            IN  <<category, Contains(reply, Yes), reply>>

(***************************************************************************)
(* Tables and the export (app.py, prepare_and_set_download_file)           *)
(***************************************************************************)
\* a key of st.session_state: Absent, or Present(value)
Absent == <<>>
Present(x) == <<x>>
Get(o) == o[1]

Min(a, b) == IF a < b THEN a ELSE b

\* the rows of `labels` in increasing order: a table over those row labels
RECURSIVE TableOf(_)
TableOf(labels) ==
    IF labels = {} THEN <<>>
    ELSE LET m == CHOOSE x \in labels : \A y \in labels : y <= x
         IN  Append(TableOf(labels \ {m}), m)

\* df.iloc[start:end], positions counted from 0, the end clipped to the table
ILoc(table, start, end) == SubSeq(table, start + 1, Min(end, Len(table)))

NumChunksOffByOne(rows, per_file) == rows \div per_file + 1

\* num_chunks = (len(df_to_export) - 1) // rows_per_file + 1
NumChunks(rows, per_file) == (rows - 1) \div per_file + 1

\* for i in range(num_chunks): ... zip_file.writestr(f"results_batch_{i+1}.csv", chunk)
RECURSIVE WriteChunks(_, _, _, _)
WriteChunks(df_to_export, per_file, i, num_chunks) ==
    IF i >= num_chunks THEN <<>>
    ELSE LET start_row == i * per_file
             end_row == start_row + per_file
         IN  <<[batch |-> i + 1,
                rows |-> ILoc(df_to_export, start_row, end_row)]>>
                 \o WriteChunks(df_to_export, per_file, i + 1, num_chunks)

PrepareFile(df_to_export, batching, per_file) ==
    IF batching /\ per_file > 0
    THEN [mime |-> "application/zip",
          members |-> WriteChunks(df_to_export, per_file, 0,
                                  NumChunks(Len(df_to_export), per_file))]
    ELSE [mime |-> "text/csv",
          members |-> <<[batch |-> 0, rows |-> df_to_export]>>]

(***************************************************************************)
(* The pre-filter on rating and ratingCount                                *)
(*                                                                         *)
(* A cell is a number, a string that reads as a number, any other string,  *)
(* or missing.  An entered threshold is blank, a number, or text that      *)
(* float() / int() reject.                                                 *)
(***************************************************************************)
NumCell(v) == [kind |-> "num", val |-> v]
NumTextCell(v) == [kind |-> "numtext", val |-> v]
TextCell == [kind |-> "text", val |-> 0]
MissingCell == [kind |-> "missing", val |-> 0]

NaN == [nan |-> TRUE, val |-> 0]
Number(v) == [nan |-> FALSE, val |-> v]

\* pd.to_numeric(column, errors='coerce')
ToNumeric(cell) ==
    IF cell.kind \in {"num", "numtext"} THEN Number(cell.val) ELSE NaN

\* .fillna(0)
FillNa(x, d) == IF x.nan THEN d ELSE x.val

MeetsStrictly(x, minimum) == x > minimum

\* column >= minimum
Meets(x, minimum) == x >= minimum

\* table[pd.to_numeric(table[col], errors='coerce').fillna(0) >= minimum]
FilterColumn(table, frame, col, minimum) ==
    SelectSeq(table, LAMBDA i : Meets(FillNa(ToNumeric(frame[i][col]), 0), minimum))

Blank == [kind |-> "blank", val |-> 0]
NumInput(v) == [kind |-> "num", val |-> v]
BadInput == [kind |-> "bad", val |-> 0]

AllRows(frame) == [i \in 1..Len(frame) |-> i]

DesktopPreviewLenient(frame, table, r, c) ==
    LET after_rating ==
            IF r.kind = "num" THEN FilterColumn(table, frame, "rating", r.val)
            ELSE table
    IN  [raised |-> FALSE,
         table |-> IF c.kind = "num"
                   THEN FilterColumn(after_rating, frame, "ratingCount", c.val)
                   ELSE after_rating]

\* desktop, lines 183-189: the preview for the entered thresholds, and whether
\* float() or int() raised ValueError on the way
DesktopPreview(frame, table, r, c) ==
    LET after_rating ==
            IF r.kind = "num" THEN FilterColumn(table, frame, "rating", r.val)
            ELSE table
    IN  IF r.kind = "bad"
        THEN [raised |-> TRUE, table |-> table]
        ELSE IF c.kind = "bad"
        THEN [raised |-> TRUE, table |-> after_rating]
        ELSE IF c.kind = "num"
        THEN [raised |-> FALSE,
              table |-> FilterColumn(after_rating, frame, "ratingCount", c.val)]
        ELSE [raised |-> FALSE, table |-> after_rating]

\* web, lines 189-192
WebPreFilter(frame, table, min_rating, min_rating_count) ==
    LET after_rating ==
            IF min_rating > 0
            THEN FilterColumn(table, frame, "rating", min_rating)
            ELSE table
    IN  IF min_rating_count > 0
        THEN FilterColumn(after_rating, frame, "ratingCount", min_rating_count)
        ELSE after_rating

(***************************************************************************)
(* Categories, the results dict and the merge                              *)
(***************************************************************************)
Categories == {"cafe", "clinic"}

\* a missing category (NaN in the frame)
MissingCategory == "NaN"

\* a dict with no key
EmptyMap == [c \in {} |-> FALSE]

RECURSIVE UniqueFrom(_, _)
UniqueFrom(column, seen) ==
    IF column = <<>> THEN <<>>
    ELSE IF Head(column) = MissingCategory \/ Head(column) \in seen
    THEN UniqueFrom(Tail(column), seen)
    ELSE <<Head(column)>> \o UniqueFrom(Tail(column), seen \cup {Head(column)})

\* column.dropna().unique(): the distinct values in order of first appearance
DropNaUnique(column) == UniqueFrom(column, {})

Range(seq) == {seq[i] : i \in 1..Len(seq)}

\* the cells of the derived column
TrueCell == "True"
FalseCell == "False"
NaNCell == "NaN"

MapCategoryDefaultTrue(dict, category) ==
    IF category \in DOMAIN dict /\ ~dict[category] THEN FalseCell ELSE TrueCell

\* Series.map(results) for one cell: the dict's value, NaN when the key is not there
MapCategory(dict, category) ==
    IF category \in DOMAIN dict
    THEN (IF dict[category] THEN TrueCell ELSE FalseCell)
    ELSE NaNCell

\* the place, in a column kept by row number, of a row the table does not hold
NoRowCell == "-"

\* df_current[CATEGORY_COL].map(results), for the rows of df_current
MapRows(rows, column, dict) ==
    [i \in 1..Len(column) |->
        IF i \in Range(rows) THEN MapCategory(dict, column[i]) ELSE NoRowCell]

\* the rows a table kept by row number holds
RowsOf(col) == SelectSeq([i \in 1..Len(col) |-> i], LAMBDA i : col[i] # NoRowCell)

\* filtered_df[CATEGORY_COL].map(results)
MapColumn(column, dict) == [i \in 1..Len(column) |-> MapCategory(dict, column[i])]

RelevantRowsAll(col) == [i \in 1..Len(col) |-> i]

\* df[df[result_col_name] == True]
RelevantRows(col) == SelectSeq([i \in 1..Len(col) |-> i], LAMBDA i : col[i] = TrueCell)

\* table[CATEGORY_COL]
CategoriesOf(table, column) == [k \in 1..Len(table) |-> column[table[k]]]

IsInFirst(table, column, chosen) ==
    SelectSeq(table, LAMBDA i : chosen # <<>> /\ column[i] = Head(chosen))

\* table[table[CATEGORY_COL].isin(chosen)]
IsIn(table, column, chosen) ==
    SelectSeq(table, LAMBDA i : column[i] \in Range(chosen))

(***************************************************************************)
(* The limiter and the fan-in                                              *)
(***************************************************************************)
AcquiresAlways(value) == TRUE

\* asyncio.Semaphore.acquire returns at once only while a permit is left
Acquires(value) == value > 0

LeaveSemaphoreOnReplyOnly(value, r) == IF r.kind = "reply" THEN value + 1 ELSE value

\* the end of "async with semaphore": the permit goes back whichever return
\* statement, or the except clause, ended the block
LeaveSemaphore(value, r) == value + 1

LoopEndsAfterFirst(yielded, tasks) == yielded >= 1 \/ tasks = 0

\* for f in asyncio.as_completed(tasks): the loop ends when every task was yielded
LoopEnds(yielded, tasks) == yielded = tasks

(***************************************************************************)
(* The parts of the state a specification leaves alone                     *)
(***************************************************************************)
ReplyIdle == resp = ExceptionResp /\ ret = NoRet

NothingPrepared ==
    /\ download = Absent
    /\ do_batch = FALSE
    /\ rows_per_file = 0

ExportIdle == final_df = Absent /\ NothingPrepared

FilterIdle ==
    /\ df = <<>>
    /\ rating_input = Blank
    /\ rating_count_input = Blank
    /\ temp_df = <<>>
    /\ filtered_df = <<>>
    /\ fpc = "done"

NothingClassified ==
    /\ category_col = <<>>
    /\ sem_limit = 1
    /\ use_ai = FALSE
    /\ enable_manual_selection = FALSE
    /\ api = EmptyMap
    /\ sem_value = 1
    /\ task = EmptyMap
    /\ posts = EmptyMap
    /\ task_ret = EmptyMap
    /\ done_queue = <<>>
    /\ collected = <<>>
    /\ results = EmptyMap
    /\ result_col = Absent
    /\ relevant_df = <<>>
    /\ kept_categories = Absent
    /\ df_classified = Absent
    /\ cb = EmptyMap
    /\ selected = <<>>
    /\ output_csv = Absent
    /\ op = "none"
    /\ prev_op = "none"

PipeIdle == pc = "halted" /\ NothingClassified

(***************************************************************************)
(* The export step of the web flow                                         *)
(***************************************************************************)
\* display_export_ui: the user sets the batch widgets and clicks "Prepare Download"
WebPrepareDownload ==
    /\ final_df # Absent
    /\ \E b \in BOOLEAN :
        \E n \in 1..MaxBatch :
            /\ do_batch' = b
            /\ rows_per_file' = (IF b THEN n ELSE 0)
            /\ download' = Present(PrepareFile(Get(final_df), b, IF b THEN n ELSE 0))
    /\ UNCHANGED <<final_df, replyVars, flow, filterVars, pipeVars>>

(***************************************************************************)
(* SpecBatch: the export of every small final table                        *)
(***************************************************************************)
InitBatch ==
    /\ final_df \in {Present(TableOf(S)) : S \in SUBSET (1..MaxExportRows)}
    /\ download = Absent
    /\ do_batch = FALSE
    /\ rows_per_file = 0
    /\ flow = "web"
    /\ ReplyIdle
    /\ FilterIdle
    /\ PipeIdle

NextBatch == WebPrepareDownload

SpecBatch == InitBatch /\ [][NextBatch]_vars

(***************************************************************************)
(* SpecFilter: the pre-filter of both flows on every small frame           *)
(***************************************************************************)
RatingCells == {NumCell(3), NumCell(4), NumTextCell(5), TextCell, MissingCell}
CountCells == {NumCell(10), NumCell(50), TextCell}
FilterRows == [rating : RatingCells, ratingCount : CountCells]
Frames == UNION {[1..n -> FilterRows] : n \in 0..MaxFilterRows}

RatingEntries == {Blank, NumInput(4), BadInput}
CountEntries == {Blank, NumInput(50), BadInput}

\* the values of the two st.number_input widgets (0 is their default)
WebRatings == {0, 4}
WebCounts == {0, 50}

InitFilter ==
    /\ flow \in {"desktop", "web"}
    /\ df \in Frames
    /\ rating_input = (IF flow = "web" THEN NumInput(0) ELSE Blank)
    /\ rating_count_input = (IF flow = "web" THEN NumInput(0) ELSE Blank)
    /\ temp_df = AllRows(df)
    /\ filtered_df = AllRows(df)
    /\ fpc = (IF flow = "web" THEN "page" ELSE "prompt")
    \* web, first script run with the toggle off (lines 261-264)
    /\ final_df = (IF flow = "web" THEN Present(AllRows(df)) ELSE Absent)
    /\ pc = (IF flow = "web" THEN "idle" ELSE "halted")
    /\ ReplyIdle
    /\ NothingPrepared
    /\ NothingClassified

\* desktop: both prompts answered, the preview computed (lines 180-191), or
\* ValueError caught (lines 200-201) and the filters skipped
DesktopEnterThresholds ==
    /\ flow = "desktop"
    /\ fpc = "prompt"
    /\ \E r \in RatingEntries, c \in CountEntries :
        LET p == DesktopPreview(df, AllRows(df), r, c)
        IN  /\ rating_input' = r
            /\ rating_count_input' = c
            /\ temp_df' = p.table
            /\ fpc' = (IF p.raised THEN "done" ELSE "confirm")
    /\ UNCHANGED <<df, filtered_df, flow, replyVars, exportVars, pipeVars>>

\* desktop: "yes" to "Do you want to keep these filters?" (lines 193-196)
DesktopConfirmFilters ==
    /\ flow = "desktop"
    /\ fpc = "confirm"
    /\ filtered_df' = temp_df
    /\ fpc' = "done"
    /\ UNCHANGED <<df, rating_input, rating_count_input, temp_df, flow,
                   replyVars, exportVars, pipeVars>>

\* desktop: any other answer, the prompts come again
DesktopRetryFilters ==
    /\ flow = "desktop"
    /\ fpc = "confirm"
    /\ fpc' = "prompt"
    /\ UNCHANGED <<df, rating_input, rating_count_input, temp_df, filtered_df,
                   flow, replyVars, exportVars, pipeVars>>

\* the page is up between two script runs
WebPage == flow = "web" /\ pc \in {"idle", "merged"}

\* the locals of a handler that has returned
LocalsGone ==
    /\ api' = EmptyMap
    /\ sem_value' = sem_limit
    /\ task' = EmptyMap
    /\ posts' = EmptyMap
    /\ task_ret' = EmptyMap
    /\ done_queue' = <<>>
    /\ collected' = <<>>
    /\ results' = EmptyMap
    /\ result_col' = Absent
    /\ relevant_df' = <<>>

\* web: a number input changed and the script reruns (lines 177-194); with
\* the AI toggle off the run takes the direct export branch (lines 261-264)
WebSetThresholds ==
    /\ WebPage
    /\ fpc = "page"
    /\ \E r \in WebRatings, c \in WebCounts :
        /\ rating_input' = NumInput(r)
        /\ rating_count_input' = NumInput(c)
        /\ filtered_df' = WebPreFilter(df, AllRows(df), r, c)
    /\ final_df' = (IF use_ai THEN final_df ELSE Present(filtered_df'))
    /\ LocalsGone
    /\ pc' = "idle"
    /\ UNCHANGED <<df, temp_df, fpc, flow, replyVars, download, do_batch,
                   rows_per_file, inputVars, use_ai, enable_manual_selection,
                   kept_categories, df_classified, selectVars>>

NextFilter ==
    \/ DesktopEnterThresholds
    \/ DesktopConfirmFilters
    \/ DesktopRetryFilters
    \/ WebSetThresholds

SpecFilter == InitFilter /\ [][NextFilter]_vars

(***************************************************************************)
(* Spec: one uploaded file taken through classification, merge, manual     *)
(* selection and finalization, in the desktop flow and in the web flow     *)
(***************************************************************************)
CategoryColumns ==
    UNION {[1..n -> Categories \cup {MissingCategory}] : n \in 0..MaxRows}

\* what the API answers in these runs
SampleResponses ==
    {ReplyResp(<<" ", "Y", "e", "s">>), ReplyResp(<<"n", "o">>),
     NoChoicesResp, ExceptionResp}

SemaphoreOf(f) == IF f = "desktop" THEN DesktopSemaphore ELSE WebSemaphore

all_rows == [i \in 1..Len(category_col) |-> i]

\* df_current: the uploaded table after the pre-filter of this script run
\* (app.py lines 177-192), the whole table where the pre-filter is not shown
df_current == IF fpc = "page" THEN filtered_df ELSE all_rows

unique_categories == DropNaUnique(CategoriesOf(df_current, category_col))

processed_count == Len(collected)

Init ==
    /\ flow \in {"desktop", "web"}
    /\ category_col \in CategoryColumns
    \* the limiter of the flow, and small limiters that the few categories
    \* of these runs can exhaust
    /\ sem_limit \in (1..MaxLimit) \cup {SemaphoreOf(flow)}
    /\ sem_value = sem_limit
    /\ pc = (IF flow = "desktop" THEN "ask" ELSE "idle")
    /\ use_ai = FALSE
    /\ enable_manual_selection = FALSE
    /\ api = EmptyMap
    /\ task = EmptyMap
    /\ posts = EmptyMap
    /\ task_ret = EmptyMap
    /\ done_queue = <<>>
    /\ collected = <<>>
    /\ results = EmptyMap
    /\ result_col = Absent
    /\ relevant_df = <<>>
    /\ kept_categories = Absent
    /\ df_classified = Absent
    /\ cb = EmptyMap
    /\ selected = <<>>
    /\ output_csv = Absent
    /\ op = "none"
    /\ prev_op = "none"
    \* web, first script run with the toggle off (lines 261-264)
    /\ final_df = (IF flow = "web" THEN Present(all_rows) ELSE Absent)
    /\ download = Absent
    /\ do_batch = FALSE
    /\ rows_per_file = 0
    /\ ReplyIdle
    /\ FilterIdle

\* results = {}; semaphore = asyncio.Semaphore(N); tasks = [classify_category(...)
\* for cat in unique_categories]
BeginClassification ==
    /\ api' = [c \in Range(unique_categories) |-> NoResp]
    /\ sem_value' = sem_limit
    /\ task' = [c \in Range(unique_categories) |-> "pending"]
    /\ posts' = [c \in Range(unique_categories) |-> 0]
    /\ task_ret' = [c \in Range(unique_categories) |-> NoRet]
    /\ done_queue' = <<>>
    /\ collected' = <<>>
    /\ results' = EmptyMap
    /\ result_col' = Absent
    /\ relevant_df' = <<>>
    /\ pc' = "classifying"

\* the user's steps in the selection, the last two remembered
Did(step) == op' = step /\ prev_op' = op
NoOp == op' = "none" /\ prev_op' = "none"


\* desktop, process_and_export up to the fan-out (lines 207-223)
DesktopStart ==
    /\ flow = "desktop"
    /\ pc = "ask"
    /\ \E manual \in BOOLEAN : enable_manual_selection' = manual
    /\ BeginClassification
    /\ UNCHANGED <<inputVars, use_ai, kept_categories, df_classified, selectVars,
                   flow, replyVars, exportVars, filterVars>>

\* desktop: no search criteria entered, process_and_export returns (lines 211-214)
DesktopNoKeyword ==
    /\ flow = "desktop"
    /\ pc = "ask"
    /\ \E manual \in BOOLEAN : enable_manual_selection' = manual
    /\ pc' = "again"
    /\ UNCHANGED <<inputVars, use_ai, classifyVars, mergeVars, selectVars,
                   flow, replyVars, exportVars, filterVars>>

\* async with semaphore: ... session.post(url, ..., timeout=30)
Acquire(c) ==
    /\ pc = "classifying"
    /\ c \in DOMAIN task
    /\ task[c] = "pending"
    /\ Acquires(sem_value)
    /\ sem_value' = sem_value - 1
    /\ task' = [task EXCEPT ![c] = "inflight"]
    /\ posts' = [posts EXCEPT ![c] = @ + 1]
    /\ UNCHANGED <<api, task_ret, done_queue, collected, results, inputVars, pc,
                   use_ai, enable_manual_selection, mergeVars, selectVars,
                   flow, replyVars, exportVars, filterVars>>

\* the request of c ends (reply, error payload, exception or timeout): the task
\* returns its tuple, leaves the "async with" and becomes ready for as_completed
Complete(c) ==
    /\ pc = "classifying"
    /\ c \in DOMAIN task
    /\ task[c] = "inflight"
    /\ \E r \in SampleResponses :
        /\ api' = [api EXCEPT ![c] = r]
        /\ task_ret' = [task_ret EXCEPT ![c] = ClassifyResponse(c, r)]
        /\ sem_value' = LeaveSemaphore(sem_value, r)
    /\ task' = [task EXCEPT ![c] = "done"]
    /\ done_queue' = Append(done_queue, c)
    /\ UNCHANGED <<posts, collected, results, inputVars, pc, use_ai,
                   enable_manual_selection, mergeVars, selectVars, flow, replyVars,
                   exportVars, filterVars>>

\* cat, is_relevant, reply = await f; results[cat] = is_relevant
Collect ==
    /\ pc = "classifying"
    /\ done_queue # <<>>
    /\ LET r == task_ret[Head(done_queue)]
       IN  /\ results' = (r[1] :> r[2]) @@ results
           /\ collected' = Append(collected, r[1])
    /\ done_queue' = Tail(done_queue)
    /\ UNCHANGED <<api, sem_value, task, posts, task_ret, inputVars, pc,
                   use_ai, enable_manual_selection, mergeVars, selectVars, flow,
                   replyVars, exportVars, filterVars>>

\* desktop, lines 228-253: the merge, then the selection window or the export
DesktopMerge ==
    /\ flow = "desktop"
    /\ pc = "classifying"
    /\ LoopEnds(processed_count, Len(unique_categories))
    /\ LET col == MapColumn(category_col, results)
           relevant == RelevantRows(col)
           kept == DropNaUnique(CategoriesOf(relevant, category_col))
       IN  /\ result_col' = Present(col)
           /\ relevant_df' = relevant
           /\ kept_categories' = Present(kept)
           /\ IF Len(kept) > 0 /\ enable_manual_selection
              THEN \* CategorySelector.__init__: tk.BooleanVar(value=False)
                   /\ cb' = [c \in Range(kept) |-> FALSE]
                   /\ pc' = "gui"
                   /\ UNCHANGED output_csv
              ELSE /\ output_csv' = Present(relevant)
                   /\ pc' = "again"
                   /\ UNCHANGED cb
    /\ UNCHANGED <<selected, op, prev_op, df_classified, inputVars, use_ai,
                   enable_manual_selection, classifyVars, flow, replyVars,
                   exportVars, filterVars>>

\* desktop, CategorySelector.select_all
GuiSelectAll ==
    /\ pc = "gui"
    /\ cb' = [c \in DOMAIN cb |-> TRUE]
    /\ Did("select_all")
    /\ UNCHANGED <<selected, output_csv, inputVars, pc, use_ai,
                   enable_manual_selection, classifyVars, mergeVars, flow,
                   replyVars, exportVars, filterVars>>

\* desktop, CategorySelector.deselect_all
GuiDeselectAll ==
    /\ pc = "gui"
    /\ cb' = [c \in DOMAIN cb |-> FALSE]
    /\ Did("deselect_all")
    /\ UNCHANGED <<selected, output_csv, inputVars, pc, use_ai,
                   enable_manual_selection, classifyVars, mergeVars, flow,
                   replyVars, exportVars, filterVars>>

\* desktop: a click on one Checkbutton
GuiToggle(c) ==
    /\ pc = "gui"
    /\ c \in DOMAIN cb
    /\ cb' = [cb EXCEPT ![c] = ~@]
    /\ Did("toggle")
    /\ UNCHANGED <<selected, output_csv, inputVars, pc, use_ai,
                   enable_manual_selection, classifyVars, mergeVars, flow,
                   replyVars, exportVars, filterVars>>

\* desktop, lines 240-253 once the window has returned `chosen` (None counts
\* as no category): the selection applied and the file written
ExportSelection(chosen) ==
    /\ selected' = chosen
    /\ relevant_df' = (IF chosen # <<>>
                       THEN IsIn(relevant_df, category_col, chosen)
                       ELSE <<>>)
    /\ output_csv' = Present(relevant_df')
    /\ pc' = "again"

\* desktop, CategorySelector.confirm
GuiConfirm ==
    /\ pc = "gui"
    /\ ExportSelection(SelectSeq(Get(kept_categories), LAMBDA c : cb[c]))
    /\ Did("finalize")
    /\ UNCHANGED <<cb, result_col, kept_categories, df_classified, inputVars,
                   use_ai, enable_manual_selection, classifyVars, flow, replyVars,
                   exportVars, filterVars>>

\* desktop: the window is closed without "Confirm Selection"; run() returns None
GuiClose ==
    /\ pc = "gui"
    /\ ExportSelection(<<>>)
    /\ Did("close")
    /\ UNCHANGED <<cb, result_col, kept_categories, df_classified, inputVars,
                   use_ai, enable_manual_selection, classifyVars, flow, replyVars,
                   exportVars, filterVars>>

\* desktop, main: "yes" to processing again (lines 314-319); the next
\* process_and_export starts from the loaded frame, with its own output file
DesktopAgain ==
    /\ flow = "desktop"
    /\ pc = "again"
    /\ pc' = "ask"
    /\ LocalsGone
    /\ enable_manual_selection' = FALSE
    /\ kept_categories' = Absent
    /\ cb' = EmptyMap
    /\ selected' = <<>>
    /\ output_csv' = Absent
    /\ NoOp
    /\ UNCHANGED <<inputVars, use_ai, df_classified, flow, replyVars, exportVars,
                   filterVars>>

\* desktop, main: any other answer ends the script
DesktopQuit ==
    /\ flow = "desktop"
    /\ pc = "again"
    /\ pc' = "halted"
    /\ UNCHANGED <<inputVars, use_ai, enable_manual_selection, classifyVars,
                   mergeVars, selectVars, flow, replyVars, exportVars, filterVars>>

(***************************************************************************)
(* The web flow: every action is one user interaction and the script run   *)
(* it triggers; the locals of the previous script run are gone.            *)
(***************************************************************************)

\* on_ai_toggle_change: the keys deleted from st.session_state
ClearSessionKeys ==
    /\ kept_categories' = Absent
    /\ df_classified' = Absent
    /\ final_df' = Absent
    /\ download' = Absent

\* The checkbox keys after a script run that st.rerun() ended before the form
\* was rendered.  Lines 219-222 delete nothing, relevant_categories being gone
\* by then (line 218); whether Streamlit itself drops the state of the widgets
\* this run did not render is left open.
CheckboxesAfterRerun(boxes) == {boxes, EmptyMap}

\* st.checkbox(cat, key=f'cb_{cat}', value=st.session_state.get(f'cb_{cat}', True))
\* for the listed categories; the state of a widget the run did not render is
\* dropped when the run completes
RenderCheckboxes(boxes, listed) ==
    [c \in Range(listed) |-> IF c \in DOMAIN boxes THEN boxes[c] ELSE TRUE]

\* web: the AI toggle is flipped (on_change=on_ai_toggle_change), the script
\* reruns and, with the toggle off, takes the direct export branch (lines 261-264)
WebToggleAI ==
    /\ WebPage
    /\ use_ai' = ~use_ai
    /\ kept_categories' = Absent
    /\ df_classified' = Absent
    /\ final_df' = (IF use_ai' THEN Absent ELSE Present(df_current))
    /\ download' = Absent
    /\ cb' = EmptyMap
    /\ LocalsGone
    /\ pc' = "idle"
    /\ NoOp
    /\ UNCHANGED <<selected, output_csv, inputVars, enable_manual_selection,
                   do_batch, rows_per_file, flow, replyVars, filterVars>>

\* web: "Start Analysis and Classification" with a search criteria entered
\* (lines 213-233)
WebStartAnalysis ==
    /\ WebPage
    /\ use_ai
    /\ ClearSessionKeys
    /\ BeginClassification
    /\ selected' = <<>>
    /\ NoOp
    /\ UNCHANGED <<cb, output_csv, inputVars, use_ai,
                   enable_manual_selection, do_batch, rows_per_file, flow,
                   replyVars, filterVars>>

\* web, lines 244-260: the merge; with a relevant category the session keeps
\* the classified table and the script reruns, showing the form
WebMerge ==
    /\ flow = "web"
    /\ pc = "classifying"
    /\ LoopEnds(processed_count, Len(unique_categories))
    /\ LET col == MapRows(df_current, category_col, results)
           relevant == RelevantRows(col)
           kept == DropNaUnique(CategoriesOf(relevant, category_col))
       IN  /\ result_col' = Present(col)
           /\ relevant_df' = relevant
           /\ IF kept # <<>>
              THEN /\ df_classified' = Present(col)
                   /\ kept_categories' = Present(kept)
                   /\ \E boxes \in CheckboxesAfterRerun(cb) :
                          cb' = RenderCheckboxes(boxes, kept)
              ELSE /\ UNCHANGED <<df_classified, kept_categories>>
                   /\ cb' = EmptyMap
    /\ pc' = "merged"
    /\ NoOp
    /\ UNCHANGED <<selected, output_csv, inputVars, use_ai,
                   enable_manual_selection, classifyVars, flow, replyVars,
                   exportVars, filterVars>>

\* the form is on the page (line 270)
FormShown == WebPage /\ kept_categories # Absent /\ Get(kept_categories) # <<>>

\* web, select_all (on_click) and the rerun
WebSelectAll ==
    /\ FormShown
    /\ cb' = [c \in Range(Get(kept_categories)) |-> TRUE] @@ cb
    /\ Did("select_all")
    /\ LocalsGone
    /\ pc' = "idle"
    /\ UNCHANGED <<selected, output_csv, kept_categories, df_classified,
                   inputVars, use_ai, enable_manual_selection, flow, replyVars,
                   exportVars, filterVars>>

\* web, deselect_all (on_click) and the rerun
WebDeselectAll ==
    /\ FormShown
    /\ cb' = [c \in Range(Get(kept_categories)) |-> FALSE] @@ cb
    /\ Did("deselect_all")
    /\ LocalsGone
    /\ pc' = "idle"
    /\ UNCHANGED <<selected, output_csv, kept_categories, df_classified,
                   inputVars, use_ai, enable_manual_selection, flow, replyVars,
                   exportVars, filterVars>>

\* web: one checkbox of the form is clicked (sent with the next submit)
WebToggle(c) ==
    /\ FormShown
    /\ c \in DOMAIN cb
    /\ cb' = [cb EXCEPT ![c] = ~@]
    /\ Did("toggle")
    /\ LocalsGone
    /\ pc' = "idle"
    /\ UNCHANGED <<selected, output_csv, kept_categories, df_classified,
                   inputVars, use_ai, enable_manual_selection, flow, replyVars,
                   exportVars, filterVars>>

\* web, "Generate File" (lines 295-310)
WebSubmit ==
    /\ FormShown
    /\ LET final_selected_categories ==
               SelectSeq(Get(kept_categories), LAMBDA c : cb[c])
       IN  /\ selected' = final_selected_categories
           /\ IF final_selected_categories = <<>>
              THEN \* st.error("You have not selected any category.")
                   UNCHANGED <<final_df, download>>
              ELSE /\ final_df' = Present(IsIn(RowsOf(Get(df_classified)),
                                              category_col,
                                              final_selected_categories))
                   /\ download' = Absent
    /\ Did("finalize")
    /\ LocalsGone
    /\ pc' = "idle"
    /\ UNCHANGED <<cb, output_csv, kept_categories, df_classified, inputVars,
                   use_ai, enable_manual_selection, do_batch, rows_per_file, flow,
                   replyVars, filterVars>>

Next ==
    \/ DesktopStart
    \/ DesktopNoKeyword
    \/ \E c \in Categories : Acquire(c)
    \/ \E c \in Categories : Complete(c)
    \/ Collect
    \/ DesktopMerge
    \/ GuiSelectAll
    \/ GuiDeselectAll
    \/ \E c \in Categories : GuiToggle(c)
    \/ GuiConfirm
    \/ GuiClose
    \/ DesktopAgain
    \/ DesktopQuit
    \/ WebToggleAI
    \/ WebStartAnalysis
    \/ WebMerge
    \/ WebSelectAll
    \/ WebDeselectAll
    \/ \E c \in Categories : WebToggle(c)
    \/ WebSubmit

Spec == Init /\ [][Next]_vars

(***************************************************************************)
(* SpecLive: the classification stage of both flows, from the start of a   *)
(* run to its merge, where the event loop runs every task that can run,    *)
(* every request ends (a reply, an error or the 30 s timeout) and the      *)
(* as_completed loop takes every finished task                             *)
(***************************************************************************)
NextLive ==
    \/ DesktopStart
    \/ WebToggleAI
    \/ WebStartAnalysis
    \/ \E c \in Categories : Acquire(c)
    \/ \E c \in Categories : Complete(c)
    \/ Collect
    \/ DesktopMerge
    \/ WebMerge

Fairness ==
    /\ \A c \in Categories : WF_vars(Acquire(c))
    /\ \A c \in Categories : WF_vars(Complete(c))
    /\ WF_vars(Collect)

SpecLive == Init /\ [][NextLive]_vars /\ Fairness

(***************************************************************************)
(* SpecReply: classify_category applied to every short reply text          *)
(***************************************************************************)
ReplyTexts == UNION {[1..n -> Chars] : n \in 0..MaxReplyLen}

Responses ==
    {ReplyResp(t) : t \in ReplyTexts}
        \cup {ExceptionResp, NoChoicesResp, MalformedResp}

ProbeCategory == "cafe"

InitReply ==
    /\ resp \in Responses
    /\ ret = NoRet
    /\ flow \in {"desktop", "web"}
    /\ ExportIdle
    /\ FilterIdle
    /\ PipeIdle

Classify ==
    /\ ret = NoRet
    /\ ret' = ClassifyResponse(ProbeCategory, resp)
    /\ UNCHANGED <<resp, exportVars, flow, filterVars, pipeVars>>

NextReply == Classify

SpecReply == InitReply /\ [][NextReply]_vars

(***************************************************************************)
(* C1: classify_category reports relevant = TRUE exactly when the reply    *)
(* text holds "yes" in any letter case, whatever surrounds it; every       *)
(* other reply gives relevant = FALSE.                                     *)
(***************************************************************************)
HoldsYesAnyCase(text) ==
    \E i \in 1..(Len(text) - 2) :
        /\ text[i] \in {"y", "Y"}
        /\ text[i + 1] \in {"e", "E"}
        /\ text[i + 2] \in {"s", "S"}

C1_RelevantIffYes ==
    (ret # NoRet /\ resp.kind = "reply") =>
        (ret[2] <=> HoldsYesAnyCase(resp.text))

\* a reply with "yes" in mixed case and text on both sides was classified
C1_Witness ==
    /\ ret # NoRet
    /\ resp.kind = "reply"
    /\ resp.text = <<"n", "Y", "e", "S", "n">>
    /\ ret[2] = TRUE

(***************************************************************************)
(* C3: a batched export of a final table of R rows with batch size B >= 1  *)
(* has ceil(R/B) chunks, chunk i holding rows [(i-1)*B, i*B) of the table; *)
(* the chunk sizes sum to R, every row is in exactly one chunk, and the    *)
(* chunks in index order give the rows in their original order.            *)
(***************************************************************************)
CeilDiv(r, b) == CHOOSE n \in 0..r : n * b >= r /\ (n = 0 \/ (n - 1) * b < r)

RECURSIVE Concat(_)
Concat(chunks) ==
    IF chunks = <<>> THEN <<>> ELSE Head(chunks).rows \o Concat(Tail(chunks))

RECURSIVE SumLen(_)
SumLen(chunks) ==
    IF chunks = <<>> THEN 0 ELSE Len(Head(chunks).rows) + SumLen(Tail(chunks))

C3_BatchedChunks ==
    (download # Absent /\ do_batch) =>
        LET tbl == Get(final_df)
            R == Len(tbl)
            B == rows_per_file
            ch == Get(download).members
        IN  /\ Len(ch) = CeilDiv(R, B)
            /\ \A i \in 1..Len(ch) :
                /\ ch[i].batch = i
                /\ Len(ch[i].rows) = Min(i * B, R) - (i - 1) * B
                /\ \A k \in 1..Len(ch[i].rows) :
                       ch[i].rows[k] = tbl[(i - 1) * B + k]
            /\ SumLen(ch) = R
            /\ \A p \in 1..R :
                   Cardinality({<<i, k>> \in (1..Len(ch)) \X (1..R) :
                                   k <= Len(ch[i].rows)
                                   /\ ch[i].rows[k] = tbl[p]}) = 1
            /\ Concat(ch) = tbl

\* a table split into full chunks and a shorter last one
C3_Witness ==
    /\ download # Absent
    /\ do_batch
    /\ rows_per_file = 2
    /\ Len(Get(final_df)) = 5
    /\ Len(Get(download).members) = 3
    /\ Len(Get(download).members[3].rows) = 1

\* an empty table exported in batches has no chunk
C3_WitnessEmpty ==
    /\ download # Absent
    /\ do_batch
    /\ Get(final_df) = <<>>
    /\ Get(download).members = <<>>

(***************************************************************************)
(* C6 (as stated): the pre-filter keeps exactly the rows whose rating,     *)
(* when a minimum rating is supplied, and ratingCount, when a minimum      *)
(* count is supplied, are >= the threshold after coercion to a number, a   *)
(* non-numeric or missing value counting as 0; with no threshold supplied  *)
(* the output equals the input; filtering again changes nothing.           *)
(***************************************************************************)
\* a minimum is supplied: the desktop prompt got a number, the web input is > 0
Supplied(entry) ==
    /\ entry.kind = "num"
    /\ flow = "web" => entry.val > 0

AsNumber(cell) ==
    CASE cell.kind = "num" -> cell.val
      [] cell.kind = "numtext" -> cell.val
      [] OTHER -> 0

RowPasses(i, r, c) ==
    /\ Supplied(r) => AsNumber(df[i].rating) >= r.val
    /\ Supplied(c) => AsNumber(df[i].ratingCount) >= c.val

ExpectedRows(r, c) == SelectSeq(AllRows(df), LAMBDA i : RowPasses(i, r, c))

FilterCommitted == fpc \in {"done", "page"}

\* the committed thresholds applied once more to the committed table
FilteredAgain ==
    IF flow = "web"
    THEN WebPreFilter(df, filtered_df, rating_input.val, rating_count_input.val)
    ELSE DesktopPreview(df, filtered_df, rating_input, rating_count_input).table

EntryRejected == "bad" \in {rating_input.kind, rating_count_input.kind}

FinalTable == IF flow = "web" THEN final_df ELSE output_csv

\* the derived column of the classified table the selection works on
ClassifiedColumn == IF flow = "web" THEN df_classified ELSE result_col

\* the rows classified relevant
AIRelevantSubset ==
    LET col == Get(ClassifiedColumn)
    IN  SelectSeq(all_rows,
                  LAMBDA i : category_col[i] # MissingCategory /\ col[i] = "True")

\* the refinement step is on screen
RefinementShown == pc = "gui" \/ FormShown

InFlight == {c \in DOMAIN task : task[c] = "inflight"}

\* relevance as the claims define it, from what the API answered
RelevantByAnswer(r) == r.kind = "reply" /\ HoldsYesAnyCase(r.text)

(***************************************************************************)
(* C2: after the merge the derived relevance value of every row equals     *)
(* the classification result of the row's category, so rows sharing a      *)
(* category carry the same value; a row whose category is missing or has   *)
(* no entry in the result mapping is never in the AI-relevant subset.      *)
(***************************************************************************)
C2_MergeByCategory ==
    result_col # Absent =>
        LET col == Get(result_col)
        IN  /\ Len(col) = Len(category_col)
            /\ \A i \in 1..Len(col) :
                   category_col[i] \in DOMAIN results =>
                       col[i] = (IF results[category_col[i]] THEN "True" ELSE "False")
            /\ \A i, j \in 1..Len(col) :
                   (category_col[i] = category_col[j]
                    /\ category_col[i] # MissingCategory) => col[i] = col[j]
            /\ \A i \in Range(relevant_df) :
                   /\ category_col[i] # MissingCategory
                   /\ category_col[i] \in DOMAIN results
                   /\ results[category_col[i]]
            /\ (selected = <<>> /\ op \notin {"finalize", "close"}) =>
                   \A i \in 1..Len(col) :
                       (category_col[i] \in DOMAIN results
                        /\ results[category_col[i]]) => i \in Range(relevant_df)

\* two rows of one relevant category, and a row without category left out
C2_Witness ==
    /\ result_col # Absent
    /\ category_col = <<"cafe", MissingCategory, "cafe">>
    /\ Get(result_col) = <<"True", "NaN", "True">>
    /\ relevant_df = <<1, 3>>

(***************************************************************************)
(* C4: with a non-empty AI-relevant subset, a finalization that leaves no  *)
(* category kept makes the final table an explicit empty table: it does    *)
(* not fail and does not leave an earlier final table in place.            *)
(***************************************************************************)
C4_EmptySelectionGivesEmptyTable ==
    (op = "finalize" /\ selected = <<>>) => FinalTable = Present(<<>>)

(***************************************************************************)
(* C5: select-all followed by finalize makes the final table exactly the   *)
(* AI-relevant subset, same rows in the same order, whatever was toggled   *)
(* before the select-all.                                                  *)
(***************************************************************************)
C5_SelectAllKeepsSubset ==
    (prev_op = "select_all" /\ op = "finalize") =>
        /\ FinalTable = Present(AIRelevantSubset)
        /\ AIRelevantSubset # <<>>

\* both categories relevant, three rows, all of them in the final table
C5_Witness ==
    /\ prev_op = "select_all"
    /\ op = "finalize"
    /\ Len(category_col) = 3
    /\ Len(selected) = 2
    /\ FinalTable = Present(<<1, 2, 3>>)

(***************************************************************************)
(* C7: at every moment of the classification stage the requests sent and   *)
(* not yet answered, failed or timed out number at most the limit of the   *)
(* semaphore, for any completion order.                                    *)
(***************************************************************************)
C7_InFlightBounded ==
    /\ Cardinality(InFlight) <= sem_limit
    /\ sem_value = sem_limit - Cardinality(InFlight)

\* the limiter is exhausted and a task waits for a permit
C7_Witness ==
    /\ pc = "classifying"
    /\ Cardinality(InFlight) = sem_limit
    /\ \E c \in DOMAIN task : task[c] = "pending"

(***************************************************************************)
(* C8: a request that fails in transport, or is answered by an error       *)
(* payload, gives its category relevant = FALSE with a status naming the   *)
(* kind of error; it is not sent again, and every other category keeps     *)
(* the result its own answer gives.                                        *)
(***************************************************************************)
C8_FailureStaysLocal ==
    /\ \A c \in DOMAIN task :
        /\ posts[c] <= 1
        /\ task[c] = "done" =>
            /\ api[c].kind = "exception" => task_ret[c] = <<c, FALSE, ERROR>>
            /\ api[c].kind = "no_choices" => task_ret[c] = <<c, FALSE, ERROR_API>>
    /\ ERROR # ERROR_API
    /\ \A c \in DOMAIN results : results[c] = RelevantByAnswer(api[c])
    /\ Len(done_queue) + Len(collected)
           = Cardinality({c \in DOMAIN task : task[c] = "done"})

\* one category failed each way while the other was classified relevant
C8_Witness ==
    /\ result_col # Absent
    /\ DOMAIN results = {"cafe", "clinic"}
    /\ api["cafe"].kind = "no_choices"
    /\ task_ret["cafe"][3] = ERROR_API
    /\ results["cafe"] = FALSE
    /\ results["clinic"] = TRUE

(***************************************************************************)
(* C9: the merge starts only when the result mapping holds one entry for   *)
(* every distinct non-missing category of the pre-filtered table, and the  *)
(* mapping is then the same whatever the order of completion.              *)
(***************************************************************************)
C9_MergeAfterFullMapping ==
    result_col # Absent =>
        /\ DOMAIN results = {c \in Range(category_col) : c # MissingCategory}
        /\ Len(collected) = Cardinality(DOMAIN results)
        /\ Range(collected) = DOMAIN results
        /\ results = [c \in DOMAIN results |-> RelevantByAnswer(api[c])]
        /\ Get(result_col) =
               [i \in 1..Len(category_col) |->
                   IF category_col[i] = MissingCategory THEN "NaN"
                   ELSE IF RelevantByAnswer(api[category_col[i]]) THEN "True"
                   ELSE "False"]

\* merged after the requests completed in the reverse of the request order
C9_Witness ==
    /\ result_col # Absent
    /\ unique_categories = <<"cafe", "clinic">>
    /\ collected = <<"clinic", "cafe">>
    /\ results["clinic"] /\ ~results["cafe"]

(***************************************************************************)
(* C10: whenever the manual refinement step is presented, every candidate  *)
(* category starts kept, so that finalizing without a toggle keeps the     *)
(* whole AI-relevant subset.                                               *)
(***************************************************************************)
C10_StartsAllKept ==
    (RefinementShown /\ op = "none") =>
        \A c \in Range(Get(kept_categories)) : c \in DOMAIN cb /\ cb[c]

(***************************************************************************)
(* C11: a finalization with at least one category kept yields exactly the  *)
(* rows of the AI-relevant subset whose category is kept at that moment,   *)
(* in original order: no row classified not relevant or without category   *)
(* is in the final table, and every relevant row of a kept category is.    *)
(***************************************************************************)
KeptAtFinalization == {c \in Range(Get(kept_categories)) : cb[c]}

C11_FinalIsKeptRelevantRows ==
    (op = "finalize" /\ selected # <<>>) =>
        /\ Range(selected) = KeptAtFinalization
        /\ FinalTable =
               Present(SelectSeq(all_rows,
                   LAMBDA i : /\ category_col[i] # MissingCategory
                              /\ Get(ClassifiedColumn)[i] = TrueCell
                              /\ category_col[i] \in KeptAtFinalization))

\* two relevant categories and a row without category; one category kept
C11_Witness ==
    /\ op = "finalize"
    /\ category_col = <<"cafe", MissingCategory, "clinic">>
    /\ Get(ClassifiedColumn) = <<TrueCell, NaNCell, TrueCell>>
    /\ selected = <<"clinic">>
    /\ FinalTable = Present(<<3>>)

\* a category classified not relevant stays out while the other is kept
C11_WitnessNotRelevant ==
    /\ op = "finalize"
    /\ category_col = <<"cafe", "clinic", "cafe">>
    /\ Get(ClassifiedColumn) = <<FalseCell, TrueCell, FalseCell>>
    /\ FinalTable = Present(<<2>>)

(***************************************************************************)
(* C12: when one pre-filter threshold is entered as a non-number and the   *)
(* other as a valid number, only the offending threshold is ignored: the   *)
(* valid one is still applied to the table, and the run goes on to the     *)
(* classification stage.                                                   *)
(***************************************************************************)
OneEntryRejected ==
    /\ flow = "desktop"
    /\ \/ rating_input.kind = "bad" /\ rating_count_input.kind = "num"
       \/ rating_input.kind = "num" /\ rating_count_input.kind = "bad"

\* the filtering is over and process_and_export goes on (line 205 onwards)
FilterStageLeft == fpc = "done"

FreshSelection(listed) == [c \in Range(listed) |-> flow = "web"]

C13_NewRunStartsFresh ==
    /\ (flow = "web" /\ pc = "classifying") =>
           /\ kept_categories = Absent
           /\ df_classified = Absent
           /\ final_df = Absent
           /\ selected = <<>>
    /\ (RefinementShown /\ op = "none") =>
           cb = FreshSelection(Get(kept_categories))

(***************************************************************************)
(* SpecDownload: a web session on a file with rating columns, from the     *)
(* pre-filter to the prepared download                                     *)
(***************************************************************************)
\* a row below both sample minimums and a row that meets them
DownloadRows ==
    {[rating |-> NumCell(3), ratingCount |-> NumCell(10)],
     [rating |-> NumCell(4), ratingCount |-> NumCell(50)]}
DownloadFrames == UNION {[1..n -> DownloadRows] : n \in 0..MaxDownloadRows}

InitDownload ==
    /\ flow = "web"
    /\ df \in DownloadFrames
    /\ category_col \in [1..Len(df) -> Categories \cup {MissingCategory}]
    /\ rating_input = NumInput(0)
    /\ rating_count_input = NumInput(0)
    /\ temp_df = AllRows(df)
    /\ filtered_df = AllRows(df)
    /\ fpc = "page"
    /\ sem_limit = WebSemaphore
    /\ sem_value = sem_limit
    /\ pc = "idle"
    /\ use_ai = FALSE
    /\ enable_manual_selection = FALSE
    /\ api = EmptyMap
    /\ task = EmptyMap
    /\ posts = EmptyMap
    /\ task_ret = EmptyMap
    /\ done_queue = <<>>
    /\ collected = <<>>
    /\ results = EmptyMap
    /\ result_col = Absent
    /\ relevant_df = <<>>
    /\ kept_categories = Absent
    /\ df_classified = Absent
    /\ cb = EmptyMap
    /\ selected = <<>>
    /\ output_csv = Absent
    /\ op = "none"
    /\ prev_op = "none"
    \* first script run with the toggle off (lines 261-264)
    /\ final_df = Present(AllRows(df))
    /\ NothingPrepared
    /\ ReplyIdle

NextDownload ==
    \/ WebSetThresholds
    \/ WebToggleAI
    \/ WebStartAnalysis
    \/ \E c \in Categories : Acquire(c)
    \/ \E c \in Categories : Complete(c)
    \/ Collect
    \/ WebMerge
    \/ WebSelectAll
    \/ WebDeselectAll
    \/ \E c \in Categories : WebToggle(c)
    \/ WebSubmit
    \/ WebPrepareDownload

SpecDownload == InitDownload /\ [][NextDownload]_vars

(***************************************************************************)
(* C14: in the web flow, after any sequence of user actions, a prepared    *)
(* download that is offered was built from the final table the session     *)
(* holds now: none prepared from an earlier final table is offered once    *)
(* the final table has changed.                                            *)
(***************************************************************************)
\* the download button is on the page (line 315)
DownloadOffered == flow = "web" /\ download # Absent

C14_DownloadMatchesFinalTable ==
    DownloadOffered =>
        /\ final_df # Absent
        /\ download = Present(PrepareFile(Get(final_df), do_batch, rows_per_file))

(***************************************************************************)
(* C15: if every request eventually gets a reply, an error or a timeout,   *)
(* the classification stage eventually has every category processed: the  *)
(* permit is given back on the success path, the API-error path and the    *)
(* exception path, so no task waits forever for a permit and the count of  *)
(* completed categories reaches the total.                                 *)
(***************************************************************************)
Waiting(c) == pc = "classifying" /\ c \in DOMAIN task /\ task[c] = "pending"

AllProcessed ==
    /\ pc = "classifying"
    /\ processed_count = Len(unique_categories)
    /\ Range(collected) = Range(unique_categories)
    /\ sem_value = sem_limit

C15_ClassificationCompletes ==
    /\ (pc = "classifying") ~> AllProcessed
    /\ \A c \in Categories : Waiting(c) ~> ~Waiting(c)

\* a limiter of one permit, and both categories processed after one request
\* ended in the exception path and the other in the API-error path
C15_Witness ==
    /\ AllProcessed
    /\ sem_limit = 1
    /\ Len(collected) = 2
    /\ api["cafe"].kind = "exception"
    /\ api["clinic"].kind = "no_choices"

=============================================================================
